---------------------------- MODULE Spec2Model ----------------------------
(***************************************************************************)
(* Model of app.py: a Streamlit script that forwards an uploaded image and *)
(* a prompt to a hosted model through the memoized function                *)
(* extract_data_from_image and renders the returned text.                  *)
(*                                                                         *)
(* Every browser session runs the script top to bottom on each widget      *)
(* interaction; the sessions of one process share the st.cache_data cache. *)
(* Texts that the code concatenates are sequences of Unicode code points;  *)
(* byte buffers are sequences of byte values.                              *)
(***************************************************************************)
EXTENDS Integers, Sequences, FiniteSets, TLC

\* ------------------------------------------------------------ bounds ----
NumSessions == 2        \* concurrent browser sessions of the one process
MaxByte     == 1        \* uploaded buffers are <<>> and <<b>>, b \in 1..MaxByte
MaxCalls    == 3        \* cap of the per-key invocation counter

Sessions == 1..NumSessions
FirstSession == CHOOSE s \in Sessions : \A t \in Sessions : s <= t

\* ------------------------------------------------- values of the code ---
\* app.py:41
MODEL == "gemini-1.5-flash"

\* app.py:33-39
SAFETY_CONFIG ==
    << [category  |-> "HARM_CATEGORY_HARASSMENT",
        threshold |-> "BLOCK_MEDIUM_AND_ABOVE"] >>

\* app.py:64, the literal part of the f-string, as code points:
\* "API " U+8C03 U+7528 U+5931 U+8D25 U+FF0C U+9519 U+8BEF U+4FE1 U+606F U+FF1A
FailurePrefix ==
    <<65, 80, 73, 32, 35843, 29992, 22833, 36133, 65292,
      38169, 35823, 20449, 24687, 65306>>

\* app.py:76-86 (the template text itself is opaque to the logic)
default_prompt == "default_prompt"

\* app.py:98
FileTypes == {"jpg", "jpeg", "png"}

\* ------------------------------------------------------ input domains ---
\* uploaded_file is None
NoFile    == [data |-> <<>>, type |-> "none"]
\* nothing was handed to st.markdown as a result; otherwise <<text>>
NoResult  == <<>>
\* the run has not reached genai.Client
NoClient  == [api_key |-> "none"]
\* generate_content called without config: no safety settings in the request
NoConfig  == [safety_settings |-> <<>>]

Buffers == {<<>>} \cup { <<b>> : b \in 1..MaxByte }
Prompts == {default_prompt, "List items"}
Files   == [data : Buffers, type : FileTypes]
JpgFiles == { f \in Files : f.type = "jpg" }

\* " ok " and "n/a": texts the hosted model may answer with
Texts == { <<32, 111, 107, 32>>, <<110, 47, 97>> }
\* "timeout": str(e) of an error raised by generate_content
CallErrors == { <<116, 105, 109, 101, 111, 117, 116>> }
\* "bad" : str(e) of an error raised while building the image part
WrapErrors == { <<98, 97, 100>> }

\* what the body of the try block can end with before the handler acts
Outcomes == [kind : {"ok"}, text : Texts] \cup [kind : {"raise"}, desc : CallErrors]

SecretStates == {"present", "no_key", "no_store"}

VARIABLES
    secret,      \* state of st.secrets for GEMINI_API_KEY (fixed per process)
    pc,          \* per session: position of the script run
    client,      \* per session: the genai client of the current run
    file,        \* per session: value of the file_uploader widget
    prompt,      \* per session: value of the text_area widget
    button,      \* per session: the submit button is pressed in this run
    shown,       \* per session: text handed to st.markdown in this run
    via,         \* per session: how the shown result was obtained
    cache,       \* st.cache_data store of extract_data_from_image
    locks,       \* value keys whose computation is in progress
    requests,    \* requests sent to the hosted model
    executions,  \* completed executions of the function body
    calls,       \* per value key: number of hosted-model invocations
    runCalls     \* per session: invocations made by the current script run

vars == <<secret, pc, client, file, prompt, button, shown, via, cache, locks,
          requests, executions, calls, runCalls>>

\* ------------------------------------------- extract_data_from_image ---
\* app.py:52-55  genai.types.Part.from_bytes(data=..., mime_type='image/jpeg')
ImagePartPng(data) == [data |-> data, mime_type |-> "image/png"]
ImagePart(data) == [data |-> data, mime_type |-> "image/jpeg"]

\* app.py:60  contents=[prompt_text, image_part]
Contents(prompt_text, data) == <<prompt_text, ImagePart(data)>>

\* app.py:58-61  generate_content(model=MODEL, contents=...): no config
\* argument is passed, so the request carries no safety settings
Request(prompt_text, data) ==
    [model    |-> MODEL,
     contents |-> Contents(prompt_text, data),
     config   |-> NoConfig]

\* str.strip() on a code-point text
RECURSIVE LStrip(_)
LStrip(t) == IF t # <<>> /\ Head(t) = 32 THEN LStrip(Tail(t)) ELSE t
RECURSIVE RStrip(_)
RStrip(t) == IF t # <<>> /\ t[Len(t)] = 32 THEN RStrip(SubSeq(t, 1, Len(t) - 1)) ELSE t
ResponseTextStripped(response) == RStrip(LStrip(response.text))

\* app.py:62  return response.text
ResponseText(response) == response.text

\* app.py:64  f"<prefix>{e}"
FailureTextNoDetail(desc) == FailurePrefix
FailureText(desc) == FailurePrefix \o desc

\* app.py:50-64  what the function body does with the outcome of its try
\* block: a value it returns, or an error it lets escape to the caller
Handle(o) ==
    IF o.kind = "raise"
        THEN [kind |-> "return", value |-> FailureText(o.desc)]
        ELSE [kind |-> "return", value |-> ResponseText(o)]

\* app.py:45-46  st.cache_data keys a call on the hash of its arguments; an
\* io.BytesIO argument is hashed by its contents (seek position is 0 here)
ValueKeyBytesOnly(image_bytes, prompt_text) == <<image_bytes, default_prompt>>
ValueKey(image_bytes, prompt_text) == <<image_bytes, prompt_text>>

Keys == { ValueKey(b, p) : b \in Buffers, p \in Prompts }

\* app.py:45  st.cache_data stores the returned value under the value key,
\* with no ttl and no max_entries
CacheWriteDropped(c, k, v) == c
CacheWrite(c, k, v) == [x \in DOMAIN c \cup {k} |-> IF x = k THEN v ELSE c[x]]

\* app.py:110,113  the key of the call the submit handler of session s makes
KeyOf(s) == ValueKey(file[s].data, prompt[s])

\* ----------------------------------------------------- script startup ---
\* app.py:17-25  st.secrets["GEMINI_API_KEY"]: the value, a KeyError (handled
\* by st.error, st.info, st.stop) or another error of the secrets store,
\* which the except clause does not name and which ends the run
StartOutcomeNoStop(sec) ==
    IF sec = "no_store" THEN "crashed" ELSE "ui"
StartOutcome(sec) ==
    CASE sec = "present" -> "ui"
      [] sec = "no_key"  -> "stopped"
      [] OTHER           -> "crashed"

\* app.py:29  genai.Client(api_key=API_KEY)
Client == [api_key |-> "GEMINI_API_KEY"]

Init ==
    /\ secret \in SecretStates
    /\ pc = [s \in Sessions |-> "new"]
    /\ client = [s \in Sessions |-> NoClient]
    /\ file = [s \in Sessions |-> NoFile]
    /\ prompt = [s \in Sessions |-> default_prompt]
    /\ button = [s \in Sessions |-> FALSE]
    /\ shown = [s \in Sessions |-> NoResult]
    /\ via = [s \in Sessions |-> "none"]
    /\ cache = << >>
    /\ locks = {}
    /\ requests = {}
    /\ executions = {}
    /\ calls = [k \in Keys |-> 0]
    /\ runCalls = [s \in Sessions |-> 0]

\* app.py:10-41, 68-99  first run of the script in a session: the key check,
\* then the client and the widgets with their initial values
RunScript(s) ==
    /\ pc[s] = "new"
    /\ pc' = [pc EXCEPT ![s] = StartOutcome(secret)]
    /\ client' = [client EXCEPT ![s] = IF pc'[s] = "ui" THEN Client ELSE NoClient]
    /\ UNCHANGED <<secret, file, prompt, button, shown, via, cache, locks,
                   requests, executions, calls, runCalls>>

\* the browser page is reloaded: a new session state, the script starts over
Reload(s) ==
    /\ pc[s] \in {"ui", "stopped", "crashed"}
    /\ pc' = [pc EXCEPT ![s] = "new"]
    /\ client' = [client EXCEPT ![s] = NoClient]
    /\ file' = [file EXCEPT ![s] = NoFile]
    /\ prompt' = [prompt EXCEPT ![s] = default_prompt]
    /\ button' = [button EXCEPT ![s] = FALSE]
    /\ shown' = [shown EXCEPT ![s] = NoResult]
    /\ via' = [via EXCEPT ![s] = "none"]
    /\ runCalls' = [runCalls EXCEPT ![s] = 0]
    /\ UNCHANGED <<secret, cache, locks, requests, executions, calls>>

\* app.py:88-93  the text area is edited; the rerun does not take the button
\* branch, so nothing is rendered as a result
EditPrompt(s, p) ==
    /\ pc[s] = "ui"
    /\ p # prompt[s]
    /\ prompt' = [prompt EXCEPT ![s] = p]
    /\ shown' = [shown EXCEPT ![s] = NoResult]
    /\ via' = [via EXCEPT ![s] = "none"]
    /\ runCalls' = [runCalls EXCEPT ![s] = 0]
    /\ UNCHANGED <<secret, pc, client, file, button, cache, locks, requests,
                   executions, calls>>

\* app.py:96-105  a file of an accepted type is uploaded; rerun as above
Upload(s, f) ==
    /\ pc[s] = "ui"
    /\ f # file[s]
    /\ file' = [file EXCEPT ![s] = f]
    /\ shown' = [shown EXCEPT ![s] = NoResult]
    /\ via' = [via EXCEPT ![s] = "none"]
    /\ runCalls' = [runCalls EXCEPT ![s] = 0]
    /\ UNCHANGED <<secret, pc, client, prompt, button, cache, locks, requests,
                   executions, calls>>

\* app.py:101,108  the button exists only below an uploaded file; pressing
\* it starts a run that takes the button branch
Press(s) ==
    /\ pc[s] = "ui"
    /\ file[s] # NoFile
    /\ pc' = [pc EXCEPT ![s] = "pressed"]
    /\ button' = [button EXCEPT ![s] = TRUE]
    /\ shown' = [shown EXCEPT ![s] = NoResult]
    /\ via' = [via EXCEPT ![s] = "none"]
    /\ runCalls' = [runCalls EXCEPT ![s] = 0]
    /\ UNCHANGED <<secret, client, file, prompt, cache, locks, requests,
                   executions, calls>>

\* app.py:113-117  the call has returned value v: it is rendered and the
\* run ends
Render(s, v, how) ==
    /\ pc' = [pc EXCEPT ![s] = "ui"]
    /\ button' = [button EXCEPT ![s] = FALSE]
    /\ shown' = [shown EXCEPT ![s] = <<v>>]
    /\ via' = [via EXCEPT ![s] = how]

\* app.py:45,113  the cached function is called: first read of the cache
CacheLookup(s) ==
    /\ pc[s] = "pressed"
    /\ IF KeyOf(s) \in DOMAIN cache
          THEN Render(s, cache[KeyOf(s)], "hit")
          ELSE /\ pc' = [pc EXCEPT ![s] = "miss"]
               /\ UNCHANGED <<button, shown, via>>
    /\ UNCHANGED <<secret, client, file, prompt, cache, locks, requests,
                   executions, calls, runCalls>>

\* app.py:50-64 under app.py:45  the function body of session s ends with
\* outcome o: the handler turns it into the returned value, st.cache_data
\* stores that value and releases the key, and the value is rendered; an
\* error that escaped would end the run with nothing stored
Finish(s, o, sent) ==
    LET k == KeyOf(s)
        h == Handle(o)
    IN  /\ executions' = executions \cup
              {[prompt_text |-> prompt[s], data |-> file[s].data,
                sent |-> sent, outcome |-> o]}
        /\ locks' = locks \ {k}
        /\ IF h.kind = "return"
              THEN /\ cache' = CacheWrite(cache, k, h.value)
                   /\ Render(s, h.value, "computed")
              ELSE /\ cache' = cache
                   /\ pc' = [pc EXCEPT ![s] = "crashed"]
                   /\ button' = [button EXCEPT ![s] = FALSE]
                   /\ UNCHANGED <<shown, via>>

\* app.py:45  after a miss st.cache_data takes the key's compute lock and
\* reads the cache again: another session has stored the value meanwhile
WaitedHit(s) ==
    /\ pc[s] = "miss"
    /\ KeyOf(s) \notin locks
    /\ KeyOf(s) \in DOMAIN cache
    /\ Render(s, cache[KeyOf(s)], "waited")
    /\ UNCHANGED <<secret, client, file, prompt, cache, locks, requests,
                   executions, calls, runCalls>>

\* app.py:52-55,63-64  building the image part raises: no request is sent
WrapFails(s, desc) ==
    /\ pc[s] = "miss"
    /\ KeyOf(s) \notin locks
    /\ KeyOf(s) \notin DOMAIN cache
    /\ Finish(s, [kind |-> "raise", desc |-> desc], FALSE)
    /\ UNCHANGED <<secret, client, file, prompt, requests, calls, runCalls>>

\* the same without the compute lock and the second read
SendUnlocked(s) ==
    /\ pc[s] = "miss"
    /\ calls[KeyOf(s)] < MaxCalls
    /\ locks' = locks \cup {KeyOf(s)}
    /\ requests' = requests \cup {Request(prompt[s], file[s].data)}
    /\ calls' = [calls EXCEPT ![KeyOf(s)] = @ + 1]
    /\ runCalls' = [runCalls EXCEPT ![s] = @ + 1]
    /\ pc' = [pc EXCEPT ![s] = "calling"]
    /\ UNCHANGED <<secret, client, file, prompt, button, shown, via, cache,
                   executions>>

\* app.py:52-61  under the compute lock, still a miss: the image part is
\* built and client.models.generate_content sends the request
Send(s) ==
    /\ pc[s] = "miss"
    /\ KeyOf(s) \notin locks
    /\ KeyOf(s) \notin DOMAIN cache
    /\ calls[KeyOf(s)] < MaxCalls
    /\ locks' = locks \cup {KeyOf(s)}
    /\ requests' = requests \cup {Request(prompt[s], file[s].data)}
    /\ calls' = [calls EXCEPT ![KeyOf(s)] = @ + 1]
    /\ runCalls' = [runCalls EXCEPT ![s] = @ + 1]
    /\ pc' = [pc EXCEPT ![s] = "calling"]
    /\ UNCHANGED <<secret, client, file, prompt, button, shown, via, cache,
                   executions>>

\* the same with the request sent again when the call raises
RespondRetrying(s, o) ==
    /\ pc[s] = "calling"
    /\ IF o.kind = "raise" /\ calls[KeyOf(s)] < MaxCalls
          THEN /\ calls' = [calls EXCEPT ![KeyOf(s)] = @ + 1]
               /\ runCalls' = [runCalls EXCEPT ![s] = @ + 1]
               /\ UNCHANGED <<pc, button, shown, via, cache, locks, executions>>
          ELSE /\ Finish(s, o, TRUE)
               /\ UNCHANGED <<calls, runCalls>>
    /\ UNCHANGED <<secret, client, file, prompt, requests>>

\* app.py:58-64  generate_content returns a response or raises
Respond(s, o) ==
    /\ pc[s] = "calling"
    /\ Finish(s, o, TRUE)
    /\ UNCHANGED <<secret, client, file, prompt, requests, calls, runCalls>>

\* One user, as in the single-instance deployment: every interaction of the
\* page, every accepted file type, every outcome of the call.  With no
\* other session the second read of the cache never hits.
Next ==
    \E s \in {FirstSession} :
        \/ RunScript(s)
        \/ Reload(s)
        \/ \E p \in Prompts : EditPrompt(s, p)
        \/ \E f \in Files : Upload(s, f)
        \/ Press(s)
        \/ CacheLookup(s)
        \/ \E d \in WrapErrors : WrapFails(s, d)
        \/ Send(s)
        \/ \E o \in Outcomes : Respond(s, o)

Spec == Init /\ [][Next]_vars

\* Several sessions of one process, interleaved at the steps of the cached
\* call; each uploads files and submits them with the default prompt.
NextShared ==
    \E s \in Sessions :
        \/ RunScript(s)
        \/ \E f \in JpgFiles : Upload(s, f)
        \/ Press(s)
        \/ CacheLookup(s)
        \/ WaitedHit(s)
        \/ Send(s)
        \/ \E o \in Outcomes : Respond(s, o)

SpecShared == Init /\ [][NextShared]_vars

TypeOK ==
    /\ secret \in SecretStates
    /\ pc \in [Sessions -> {"new", "stopped", "crashed", "ui", "pressed", "miss", "calling"}]
    /\ \A s \in Sessions : file[s] \in Files \cup {NoFile}
    /\ prompt \in [Sessions -> Prompts]
    /\ button \in [Sessions -> BOOLEAN]
    /\ DOMAIN cache \subseteq Keys
    /\ locks \subseteq Keys

\* ------------------------------------------------------------ helpers ---
\* the completed executions of the function body for the input session s
\* currently holds
ExecutionsFor(s) ==
    { e \in executions : e.prompt_text = prompt[s] /\ e.data = file[s].data }

\* "API ...: timeout", the failure text for an error described as "timeout"
TimeoutFailureText ==
    <<65, 80, 73, 32, 35843, 29992, 22833, 36133, 65292,
      38169, 35823, 20449, 24687, 65306,
      116, 105, 109, 101, 111, 117, 116>>

\* ------------------------------------------------------------- claims ---
\* C1: every error raised inside the call (by the hosted-model invocation or
\* while the image part is built) comes back as the failure prefix followed
\* by the error's description: that text is what the call returns, what is
\* stored and what is rendered, and no run ends with the error escaping the
\* call.
C1_ErrorsReturnedAsText ==
    /\ \A e \in executions : e.outcome.kind = "raise" =>
          LET k == ValueKey(e.data, e.prompt_text)
          IN  /\ k \in DOMAIN cache
              /\ cache[k] = FailurePrefix \o e.outcome.desc
    /\ \A s \in Sessions : \A e \in ExecutionsFor(s) :
          (shown[s] # NoResult /\ e.outcome.kind = "raise")
              => shown[s] = << FailurePrefix \o e.outcome.desc >>
    /\ \A s \in Sessions : pc[s] = "crashed" => secret = "no_store"

\* C1 witness: the invocation raised "timeout" and the session is shown
\* exactly the prefix followed by "timeout".
C1_Witness ==
    \E s \in Sessions :
        /\ pc[s] = "ui"
        /\ via[s] = "computed"
        /\ shown[s] = << TimeoutFailureText >>
        /\ \E e \in ExecutionsFor(s) : e.sent /\ e.outcome.kind = "raise"

\* C2: for every (image bytes, prompt) key the hosted model is invoked at most
\* once in the process, and a call answered from the cache made no invocation
\* and returns the value the one execution for that key returned.
C2_AtMostOneInvocationPerKey ==
    /\ \A k \in Keys : calls[k] <= 1
    /\ \A s \in Sessions : via[s] \in {"hit", "waited"} =>
          /\ runCalls[s] = 0
          /\ KeyOf(s) \in DOMAIN cache
          /\ shown[s] = << cache[KeyOf(s)] >>
          /\ Cardinality(ExecutionsFor(s)) = 1

\* C2 witness: a second submission of an input that was invoked once is
\* answered from the cache.
C2_Witness ==
    \E s \in Sessions :
        /\ via[s] = "hit"
        /\ calls[KeyOf(s)] = 1
        /\ runCalls[s] = 0

\* C3: every request sent carries the fixed model identifier and the
\* SAFETY_CONFIG list as its safety settings.
C3_RequestsCarrySafetyConfig ==
    \A r \in requests :
        /\ r.model = MODEL
        /\ r.config.safety_settings = SAFETY_CONFIG

\* C4: with the secret missing no run gets past the key check: no client is
\* created, no file is accepted, no button is pressed and no request is sent.
C4_MissingSecretHalts ==
    secret # "present" =>
        /\ \A s \in Sessions :
              /\ pc[s] \in {"new", "stopped", "crashed"}
              /\ client[s] = NoClient
              /\ file[s] = NoFile
              /\ ~button[s]
              /\ shown[s] = NoResult
        /\ requests = {}
        /\ \A k \in Keys : calls[k] = 0

\* C4 witness: the key is missing and the run was halted by st.stop.
C4_Witness ==
    /\ secret = "no_key"
    /\ \E s \in Sessions : pc[s] = "stopped"

\* C5: every request sent has a content list of exactly two elements, the
\* prompt of the submitting session verbatim and then a part holding exactly
\* the uploaded bytes with MIME type image/jpeg, whatever the file's type.
C5_RequestShape ==
    /\ \A r \in requests :
          /\ Len(r.contents) = 2
          /\ r.contents[1] \in Prompts
          /\ DOMAIN r.contents[2] = {"data", "mime_type"}
          /\ r.contents[2].data \in Buffers
          /\ r.contents[2].mime_type = "image/jpeg"
    /\ \A s \in Sessions : pc[s] = "calling" =>
          \E r \in requests :
              r.contents = << prompt[s],
                              [data |-> file[s].data, mime_type |-> "image/jpeg"] >>

\* C5 witness: a PNG upload with an edited prompt is in flight.
C5_Witness ==
    \E s \in Sessions :
        /\ pc[s] = "calling"
        /\ file[s].type = "png"
        /\ file[s].data # <<>>
        /\ prompt[s] = "List items"

\* C6: when the invocation for the input a session holds succeeded, the text
\* rendered for that session is the response text, unmodified.
C6_SuccessTextUnmodified ==
    \A s \in Sessions : \A e \in ExecutionsFor(s) :
        (shown[s] # NoResult /\ e.outcome.kind = "ok")
            => shown[s] = << e.outcome.text >>

\* C6 witness: the model answered " ok " (with its spaces) and that is shown.
C6_Witness ==
    \E s \in Sessions :
        /\ shown[s] = << <<32, 111, 107, 32>> >>
        /\ \E e \in ExecutionsFor(s) :
              e.outcome = [kind |-> "ok", text |-> <<32, 111, 107, 32>>]

\* C7: a hosted-model invocation is made only by a run in which a file is
\* uploaded and the button is pressed, and only if that run has made none
\* yet: one submit causes at most one invocation, failed or not.
C7_OneInvocationPerSubmit ==
    [][ /\ \A s \in Sessions : runCalls'[s] > runCalls[s] =>
              /\ button[s]
              /\ file[s] # NoFile
              /\ runCalls[s] = 0
              /\ runCalls'[s] = 1
        /\ calls' # calls => \E s \in Sessions : runCalls'[s] > runCalls[s] ]_vars

\* C7 witness: a run invoked the model once, the invocation failed, and the
\* run ended with the failure text and no second invocation.
C7_Witness ==
    \E s \in Sessions :
        /\ pc[s] = "ui"
        /\ runCalls[s] = 1
        /\ calls[KeyOf(s)] = 1
        /\ shown[s] = << TimeoutFailureText >>

\* C8, as stated: two sessions that miss the cache on the same input at the
\* same time both invoke the hosted model and race to populate the entry,
\* i.e. a session whose call was not answered by the first read of the cache
\* obtained its result from an invocation of its own.
C8_BothInvokeAndRace ==
    \A s \in Sessions :
        (shown[s] # NoResult /\ via[s] # "hit") => runCalls[s] = 1

\* C8, as amended: of the sessions that miss the cache on the same input at
\* the same time at most one invokes the hosted model; the others wait for
\* the key and read the stored entry without invoking, so the entry is
\* written once, and all sessions that submitted that input, then or later,
\* are shown the same value, the one stored for it.
C8_OneInvokesOthersWait ==
    /\ \A s, t \in Sessions :
          (s # t /\ pc[s] = "calling" /\ pc[t] = "calling")
              => KeyOf(s) # KeyOf(t)
    /\ \A s \in Sessions : via[s] = "waited" => runCalls[s] = 0
    /\ \A s, t \in Sessions :
          (shown[s] # NoResult /\ shown[t] # NoResult /\ KeyOf(s) = KeyOf(t))
              => /\ shown[s] = shown[t]
                 /\ KeyOf(s) \in DOMAIN cache
                 /\ shown[s] = << cache[KeyOf(s)] >>
                 /\ (s # t => ~(via[s] = "computed" /\ via[t] = "computed"))

\* C8 witness: two sessions missed on the same input at the same time; one
\* invoked the model and stored the value, the other waited for the key and
\* was shown that value without invoking.
C8_Witness ==
    \E s, t \in Sessions :
        /\ s # t
        /\ KeyOf(s) = KeyOf(t)
        /\ via[s] = "computed" /\ runCalls[s] = 1
        /\ via[t] = "waited" /\ runCalls[t] = 0
        /\ shown[s] = shown[t]

\* C9: a submission answered from the cache is never one whose hosted-model
\* invocation failed before, i.e. resubmitting the same input after a failed
\* invocation invokes the model again.
C9_RetryReinvokes ==
    \A s \in Sessions :
        via[s] \in {"hit", "waited"} =>
            \A e \in ExecutionsFor(s) : ~(e.sent /\ e.outcome.kind = "raise")

\* C10: the result shown for an input was produced by an execution of the
\* call on exactly that prompt and those bytes, and if that execution sent a
\* request, the request's payload held exactly that prompt and those bytes.
C10_CacheKeyIsolation ==
    \A s \in Sessions : shown[s] # NoResult =>
        \E e \in ExecutionsFor(s) :
            /\ shown[s] = << Handle(e.outcome).value >>
            /\ e.sent =>
                  \E r \in requests :
                      /\ r.contents[1] = prompt[s]
                      /\ r.contents[2].data = file[s].data

\* C10 witness: results are cached for inputs that differ in the bytes and
\* for inputs that differ in the prompt, with different values, and a
\* submission is answered from the cache.
C10_Witness ==
    /\ \E s \in Sessions : via[s] = "hit"
    /\ \E k1, k2, k3 \in DOMAIN cache :
          /\ k1[1] # k2[1] /\ k1[2] = k2[2] /\ cache[k1] # cache[k2]
          /\ k1[1] = k3[1] /\ k1[2] # k3[2] /\ cache[k1] # cache[k3]

=============================================================================
